---- MODULE Spec2Model ----
(***************************************************************************)
(* A model of keras/applications/vgg19.py: one call of the factory         *)
(* function VGG19(include_top, weights, input_tensor, layers_lr).          *)
(*                                                                         *)
(* The call is followed statement by statement (pc).  The arguments and    *)
(* the ambient configuration read through K.backend() and                  *)
(* K.image_dim_ordering() are drawn in Init and do not change during the   *)
(* call (the function never writes them and is single threaded).           *)
(*                                                                         *)
(* Every call the function makes on a collaborator (Input, a layer         *)
(* constructor, Model, get_file, load_weights, warnings.warn,              *)
(* convert_all_kernels_in_model) is appended to `trace`, in program order. *)
(* The collaborators are taken to return normally: their own failures      *)
(* (download errors, shape mismatches inside the framework) are not part   *)
(* of this file.                                                           *)
(***************************************************************************)
EXTENDS Integers, Sequences, FiniteSets

(***************************************************************************)
(* Bounds of the model.                                                    *)
(***************************************************************************)
\* layers_lr is drawn from 0 .. MaxLr
MaxLr == 2

(***************************************************************************)
(* Python values.                                                          *)
(***************************************************************************)
\* Python's None (as an argument value and as an unassigned local)
NoneVal == [type |-> "NoneType"]

\* None as a dimension of a shape tuple: (3, None, None)
NoneDim == 0

Str(s) == [type |-> "str", val |-> s]

\* a list such as ['imagenet']: a value Python cannot hash
List(s) == [type |-> "list", val |-> s]

Imagenet == Str("imagenet")

\* hash(v): defined for str and None, TypeError for list
Hashable(v) == v.type \in {"str", "NoneType"}

(***************************************************************************)
(* Module constants, lines 23-26.                                          *)
(***************************************************************************)
TH_WEIGHTS_PATH == "https://github.com/fchollet/deep-learning-models/releases/download/v0.1/vgg19_weights_th_dim_ordering_th_kernels.h5"
TF_WEIGHTS_PATH == "https://github.com/fchollet/deep-learning-models/releases/download/v0.1/vgg19_weights_tf_dim_ordering_tf_kernels.h5"
TH_WEIGHTS_PATH_NO_TOP == "https://github.com/fchollet/deep-learning-models/releases/download/v0.1/vgg19_weights_th_dim_ordering_th_kernels_notop.h5"
TF_WEIGHTS_PATH_NO_TOP == "https://github.com/fchollet/deep-learning-models/releases/download/v0.1/vgg19_weights_tf_dim_ordering_tf_kernels_notop.h5"

(***************************************************************************)
(* The inputs of a call.                                                   *)
(***************************************************************************)
\* K.backend()
Backends == {"theano", "tensorflow"}

\* K.image_dim_ordering()
DimOrderings == {"th", "tf"}

\* values a caller passes as `weights`
WeightsValues == {Imagenet, NoneVal, Str("places"), List("imagenet")}

\* a backend tensor that is not a Keras tensor
RawTensor == [type |-> "tensor", id |-> "raw_placeholder", keras |-> FALSE,
              shape |-> <<3, 100, 100>>]

KerasTensor(id, shape) == [type |-> "tensor", id |-> id, keras |-> TRUE, shape |-> shape]

\* outputs of layers.Input() the caller built beforehand
KerasTensors == {KerasTensor("caller_input_th", <<3, 224, 224>>),
                 KerasTensor("caller_input_tf", <<224, 224, 3>>),
                 KerasTensor("caller_input_small", <<3, 100, 100>>)}

InputTensors == {NoneVal, RawTensor} \cup KerasTensors

LrValues == 0 .. MaxLr

VARIABLES
    backend,        \* K.backend()
    dim_ordering,   \* K.image_dim_ordering()
    file_order,     \* order in which the hosted weight files store their groups
    include_top, weights, input_tensor, layers_lr,   \* the arguments
    pc,             \* position in the function
    input_shape, img_input, x, layers, model, weights_path,   \* locals
    warned,         \* warnings emitted
    error,          \* exception raised to the caller, "" if none
    returned,       \* value returned to the caller
    trace           \* calls on collaborators, in order

env == <<backend, dim_ordering, file_order>>
args == <<include_top, weights, input_tensor, layers_lr>>
locals == <<input_shape, img_input, x, layers, model, weights_path>>
vars == <<env, args, pc, locals, warned, error, returned, trace>>

Init ==
    /\ backend \in Backends
    /\ dim_ordering \in DimOrderings
    /\ file_order \in {"topological", "reversed"}
    /\ include_top \in BOOLEAN
    /\ weights \in WeightsValues
    /\ input_tensor \in InputTensors
    /\ layers_lr \in LrValues
    /\ pc = "validate"
    /\ input_shape = <<>>
    /\ img_input = NoneVal
    /\ x = NoneVal
    /\ layers = <<>>
    /\ model = NoneVal
    /\ weights_path = NoneVal
    /\ warned = <<>>
    /\ error = ""
    /\ returned = NoneVal
    /\ trace = <<>>

(***************************************************************************)
(* Lines 56-59: the validation of `weights`.                               *)
(***************************************************************************)
\* `weights not in {'imagenet', None}`: the membership test hashes its left
\* operand first, so an unhashable value raises TypeError; otherwise the
\* ValueError of line 57 is raised for a value outside the set.
CheckWeights(w) ==
    IF ~Hashable(w) THEN "TypeError"
    ELSE IF w \notin {Imagenet, NoneVal} THEN "ValueError"
    ELSE ""

Validate ==
    /\ pc = "validate"
    /\ LET exc == CheckWeights(weights) IN
         IF exc # ""
         THEN /\ error' = exc
              /\ pc' = "raised"
              /\ trace' = Append(trace, [op |-> "raise", exc |-> exc])
         ELSE /\ error' = error
              /\ pc' = "input_shape"
              /\ trace' = trace
    /\ UNCHANGED <<env, args, locals, warned, returned>>

(***************************************************************************)
(* Lines 60-70: the input shape.                                           *)
(***************************************************************************)
\* the shape of lines 63/68 on every path: the head-less branches lost
InputShape_AlwaysFixed(ordering, top) ==
    IF ordering = "th" THEN <<3, 224, 224>> ELSE <<224, 224, 3>>

InputShape(ordering, top) ==
    IF ordering = "th"
    THEN IF top THEN <<3, 224, 224>> ELSE <<3, NoneDim, NoneDim>>
    ELSE IF top THEN <<224, 224, 3>> ELSE <<NoneDim, NoneDim, 3>>

DetermineInputShape ==
    /\ pc = "input_shape"
    /\ input_shape' = InputShape(dim_ordering, include_top)
    /\ pc' = "img_input"
    /\ UNCHANGED <<env, args, img_input, x, layers, model, weights_path,
                   warned, error, returned, trace>>

(***************************************************************************)
(* Lines 72-78: the entry point of the graph.                              *)
(***************************************************************************)
\* layers.Input(shape=..., tensor=...): a new Keras tensor of the declared
\* shape, wrapping `tensor` when one is given
Input(shape, tensor) ==
    [type |-> "tensor", id |-> "input_1", keras |-> TRUE, shape |-> shape,
     tensor |-> tensor]

\* K.is_keras_tensor
is_keras_tensor(t) == t.keras

\* every given tensor wrapped in a new Input, Keras tensor or not
ImgInput_AlwaysNew(t, shape) ==
    IF t = NoneVal
    THEN [value |-> Input(shape, NoneVal),
          calls |-> <<[op |-> "Input", shape |-> shape, tensor |-> NoneVal]>>]
    ELSE [value |-> Input(shape, t),
          calls |-> <<[op |-> "Input", shape |-> shape, tensor |-> t]>>]

\* the value assigned to img_input and the Input calls made to obtain it
ImgInput(t, shape) ==
    IF t = NoneVal
    THEN [value |-> Input(shape, NoneVal),
          calls |-> <<[op |-> "Input", shape |-> shape, tensor |-> NoneVal]>>]
    ELSE IF ~is_keras_tensor(t)
         THEN [value |-> Input(shape, t),
               calls |-> <<[op |-> "Input", shape |-> shape, tensor |-> t]>>]
         ELSE [value |-> t, calls |-> <<>>]

MakeInput ==
    /\ pc = "img_input"
    /\ LET r == ImgInput(input_tensor, input_shape) IN
         /\ img_input' = r.value
         /\ trace' = trace \o r.calls
    /\ pc' = "block1"
    /\ UNCHANGED <<env, args, input_shape, x, layers, model, weights_path,
                   warned, error, returned>>

(***************************************************************************)
(* Lines 79-134: the layers.                                               *)
(***************************************************************************)
Convolution2D(nb_filter, nb_row, nb_col, activation, border_mode, name, W_lr, b_lr) ==
    [kind |-> "Convolution2D", nb_filter |-> nb_filter, nb_row |-> nb_row,
     nb_col |-> nb_col, activation |-> activation, border_mode |-> border_mode,
     name |-> name, W_learning_rate_multiplier |-> W_lr,
     b_learning_rate_multiplier |-> b_lr]

MaxPooling2D(pool_size, strides, name) ==
    [kind |-> "MaxPooling2D", pool_size |-> pool_size, strides |-> strides,
     name |-> name]

Flatten(name) == [kind |-> "Flatten", name |-> name]

Dense(output_dim, activation, name, W_lr, b_lr) ==
    [kind |-> "Dense", output_dim |-> output_dim, activation |-> activation,
     name |-> name, W_learning_rate_multiplier |-> W_lr,
     b_learning_rate_multiplier |-> b_lr]

\* the tensor a layer returns when it is called
OutputOf(layer) ==
    [type |-> "tensor", id |-> layer.name, keras |-> TRUE, shape |-> <<>>]

\* layer(t): the layer, wired to the tensor it is called on
Connect(layer, t) ==
    [f \in DOMAIN layer \cup {"inbound"} |->
        IF f = "inbound" THEN t.id ELSE layer[f]]

\* x = L1(...)(t); x = L2(...)(x); ... : each layer is called on the output
\* of the one before it
Stack(ls, t) ==
    [i \in 1 .. Len(ls) |->
        Connect(ls[i], IF i = 1 THEN t ELSE OutputOf(ls[i - 1]))]

LayerCalls(ls) ==
    [i \in 1 .. Len(ls) |-> [op |-> "layer", kind |-> ls[i].kind, name |-> ls[i].name]]

\* lines 80-84
Block1Layers(lr) ==
    << Convolution2D(64, 3, 3, "relu", "same", "block1_conv1", lr, lr),
       Convolution2D(64, 3, 3, "relu", "same", "block1_conv2", lr, lr),
       MaxPooling2D(<<2, 2>>, <<2, 2>>, "block1_pool") >>

\* lines 87-91
Block2Layers(lr) ==
    << Convolution2D(128, 3, 3, "relu", "same", "block2_conv1", lr, lr),
       Convolution2D(128, 3, 3, "relu", "same", "block2_conv2", lr, lr),
       MaxPooling2D(<<2, 2>>, <<2, 2>>, "block2_pool") >>

\* block 3 with three convolutions, as in the 16-layer variant
Block3Layers_ThreeConvs(lr) ==
    << Convolution2D(256, 3, 3, "relu", "same", "block3_conv1", lr, lr),
       Convolution2D(256, 3, 3, "relu", "same", "block3_conv2", lr, lr),
       Convolution2D(256, 3, 3, "relu", "same", "block3_conv3", lr, lr),
       MaxPooling2D(<<2, 2>>, <<2, 2>>, "block3_pool") >>

\* lines 94-102
Block3Layers(lr) ==
    << Convolution2D(256, 3, 3, "relu", "same", "block3_conv1", lr, lr),
       Convolution2D(256, 3, 3, "relu", "same", "block3_conv2", lr, lr),
       Convolution2D(256, 3, 3, "relu", "same", "block3_conv3", lr, lr),
       Convolution2D(256, 3, 3, "relu", "same", "block3_conv4", lr, lr),
       MaxPooling2D(<<2, 2>>, <<2, 2>>, "block3_pool") >>

\* block 4 with block4_conv3 left at the default multipliers (1.0)
Block4Layers_DefaultLr(lr) ==
    << Convolution2D(512, 3, 3, "relu", "same", "block4_conv1", lr, lr),
       Convolution2D(512, 3, 3, "relu", "same", "block4_conv2", lr, lr),
       Convolution2D(512, 3, 3, "relu", "same", "block4_conv3", 1, 1),
       Convolution2D(512, 3, 3, "relu", "same", "block4_conv4", lr, lr),
       MaxPooling2D(<<2, 2>>, <<2, 2>>, "block4_pool") >>

\* lines 105-113
Block4Layers(lr) ==
    << Convolution2D(512, 3, 3, "relu", "same", "block4_conv1", lr, lr),
       Convolution2D(512, 3, 3, "relu", "same", "block4_conv2", lr, lr),
       Convolution2D(512, 3, 3, "relu", "same", "block4_conv3", lr, lr),
       Convolution2D(512, 3, 3, "relu", "same", "block4_conv4", lr, lr),
       MaxPooling2D(<<2, 2>>, <<2, 2>>, "block4_pool") >>

\* lines 116-124
Block5Layers(lr) ==
    << Convolution2D(512, 3, 3, "relu", "same", "block5_conv1", lr, lr),
       Convolution2D(512, 3, 3, "relu", "same", "block5_conv2", lr, lr),
       Convolution2D(512, 3, 3, "relu", "same", "block5_conv3", lr, lr),
       Convolution2D(512, 3, 3, "relu", "same", "block5_conv4", lr, lr),
       MaxPooling2D(<<2, 2>>, <<2, 2>>, "block5_pool") >>

\* lines 126-134
TopLayers(top, lr) ==
    IF top
    THEN << Flatten("flatten"),
            Dense(4096, "relu", "fc1", lr, lr),
            Dense(4096, "relu", "fc2", lr, lr),
            Dense(1000, "softmax", "predictions", lr, lr) >>
    ELSE << >>

\* one block of statements `x = Layer(...)(x)`, starting from tensor t
AddLayers(ls, t, next) ==
    /\ layers' = layers \o Stack(ls, t)
    /\ x' = IF ls = << >> THEN t ELSE OutputOf(ls[Len(ls)])
    /\ trace' = trace \o LayerCalls(ls)
    /\ pc' = next
    /\ UNCHANGED <<env, args, input_shape, img_input, model, weights_path,
                   warned, error, returned>>

Block1 == pc = "block1" /\ AddLayers(Block1Layers(layers_lr), img_input, "block2")

Block2 == pc = "block2" /\ AddLayers(Block2Layers(layers_lr), x, "block3")

Block3 == pc = "block3" /\ AddLayers(Block3Layers(layers_lr), x, "block4")

Block4 == pc = "block4" /\ AddLayers(Block4Layers(layers_lr), x, "block5")

Block5 == pc = "block5" /\ AddLayers(Block5Layers(layers_lr), x, "top")

ClassificationBlock ==
    pc = "top" /\ AddLayers(TopLayers(include_top, layers_lr), x, "model")

(***************************************************************************)
(* Line 137: the model.                                                    *)
(***************************************************************************)
LayerNames(ls) == {ls[i].name : i \in 1 .. Len(ls)}

\* Model(input, output); its layers are those between input and output and
\* their weights are freshly initialised
Model(input, output, ls) ==
    [type |-> "Model", input |-> input, output |-> output, layers |-> ls,
     weights |-> [n \in LayerNames(ls) |-> <<"initial", n>>],
     kernels |-> "initial"]

\* the weights loaded whatever `weights` is
LoadsWeights_Always(w) == TRUE

\* line 140: `if weights == 'imagenet'`
LoadsWeights(w) == w = Imagenet

CreateModel ==
    /\ pc = "model"
    /\ model' = Model(img_input, x, layers)
    /\ trace' = Append(trace, [op |-> "Model", input |-> img_input, output |-> x])
    /\ pc' = IF LoadsWeights(weights) THEN "get_file" ELSE "return"
    /\ UNCHANGED <<env, args, input_shape, img_input, x, layers, weights_path,
                   warned, error, returned>>

(***************************************************************************)
(* Lines 141-149 and 162-169: the weight file.                             *)
(***************************************************************************)
\* the head-less 'th' branch fetching the file of the full model
WeightsFile_NoTopForgotten(ordering, top) ==
    IF ordering = "th"
    THEN [fname |-> "vgg19_weights_th_dim_ordering_th_kernels.h5",
          origin |-> TH_WEIGHTS_PATH, cache_subdir |-> "models"]
    ELSE IF top
         THEN [fname |-> "vgg19_weights_tf_dim_ordering_tf_kernels.h5",
               origin |-> TF_WEIGHTS_PATH, cache_subdir |-> "models"]
         ELSE [fname |-> "vgg19_weights_tf_dim_ordering_tf_kernels_notop.h5",
               origin |-> TF_WEIGHTS_PATH_NO_TOP, cache_subdir |-> "models"]

\* the arguments of the get_file call
WeightsFile(ordering, top) ==
    IF ordering = "th"
    THEN IF top
         THEN [fname |-> "vgg19_weights_th_dim_ordering_th_kernels.h5",
               origin |-> TH_WEIGHTS_PATH, cache_subdir |-> "models"]
         ELSE [fname |-> "vgg19_weights_th_dim_ordering_th_kernels_notop.h5",
               origin |-> TH_WEIGHTS_PATH_NO_TOP, cache_subdir |-> "models"]
    ELSE IF top
         THEN [fname |-> "vgg19_weights_tf_dim_ordering_tf_kernels.h5",
               origin |-> TF_WEIGHTS_PATH, cache_subdir |-> "models"]
         ELSE [fname |-> "vgg19_weights_tf_dim_ordering_tf_kernels_notop.h5",
               origin |-> TF_WEIGHTS_PATH_NO_TOP, cache_subdir |-> "models"]

\* the directories get_file caches under
DatadirBases == {"~/.keras", "/tmp/.keras"}

\* get_file(fname, origin, cache_subdir): the local path of the cached copy
get_file(f, base) ==
    [type |-> "path", datadir_base |-> base, cache_subdir |-> f.cache_subdir,
     fname |-> f.fname, origin |-> f.origin]

GetFile ==
    /\ pc = "get_file"
    /\ \E base \in DatadirBases :
         LET f == WeightsFile(dim_ordering, include_top)
             path == get_file(f, base)
         IN /\ weights_path' = path
            /\ trace' = Append(trace, [op |-> "get_file", fname |-> f.fname,
                                       origin |-> f.origin,
                                       cache_subdir |-> f.cache_subdir,
                                       result |-> path])
    /\ pc' = "load_weights"
    /\ UNCHANGED <<env, args, input_shape, img_input, x, layers, model,
                   warned, error, returned>>

(***************************************************************************)
(* Lines 150 and 170: model.load_weights(weights_path).                    *)
(***************************************************************************)
Reverse(s) == [i \in 1 .. Len(s) |-> s[Len(s) + 1 - i]]

NoTopNames ==
    << "block1_conv1", "block1_conv2", "block1_pool",
       "block2_conv1", "block2_conv2", "block2_pool",
       "block3_conv1", "block3_conv2", "block3_conv3", "block3_conv4", "block3_pool",
       "block4_conv1", "block4_conv2", "block4_conv3", "block4_conv4", "block4_pool",
       "block5_conv1", "block5_conv2", "block5_conv3", "block5_conv4", "block5_pool" >>

TopNames == NoTopNames \o << "flatten", "fc1", "fc2", "predictions" >>

\* the content of a hosted weight file: tensor groups keyed by layer name
WeightFileGroups(path, order) ==
    LET names == IF path.origin \in {TH_WEIGHTS_PATH_NO_TOP, TF_WEIGHTS_PATH_NO_TOP}
                 THEN NoTopNames ELSE TopNames
        groups == [i \in 1 .. Len(names) |->
                     [name |-> names[i], data |-> <<path.fname, names[i]>>]]
    IN IF order = "reversed" THEN Reverse(groups) ELSE groups

\* the kernel convention of the tensors in a hosted file
FileKernels(path) ==
    IF path.origin \in {TH_WEIGHTS_PATH, TH_WEIGHTS_PATH_NO_TOP} THEN "th" ELSE "tf"

\* load_weights on a model that assigns the file's groups in file order to the
\* layers in model order
load_weights_by_position(m, path, groups) ==
    [m EXCEPT
       !.weights = [n \in DOMAIN m.weights |->
                      LET i == CHOOSE i \in 1 .. Len(m.layers) : m.layers[i].name = n
                      IN IF i <= Len(groups) THEN groups[i].data ELSE m.weights[n]],
       !.kernels = FileKernels(path)]

\* Model.load_weights(filepath): each stored group goes to the layer of the
\* same name
load_weights(m, path, groups) ==
    [m EXCEPT
       !.weights = [n \in DOMAIN m.weights |->
                      IF \E i \in 1 .. Len(groups) : groups[i].name = n
                      THEN groups[CHOOSE i \in 1 .. Len(groups) : groups[i].name = n].data
                      ELSE m.weights[n]],
       !.kernels = FileKernels(path)]

\* the warning lost
WarnsAfterLoad_Never(ordering, be) == FALSE

\* lines 151-159: the warning is in the 'th' branch only
WarnsAfterLoad(ordering, be) == ordering = "th" /\ be = "tensorflow"

\* the 'tf' branch testing for the backend it matches
ConvertsAfterLoad_WrongBackend(ordering, be) == be = "tensorflow"

\* lines 151/160 and 171/172
ConvertsAfterLoad(ordering, be) ==
    IF ordering = "th" THEN be = "tensorflow" ELSE be = "theano"

LoadWeights ==
    /\ pc = "load_weights"
    /\ model' = load_weights(model, weights_path,
                             WeightFileGroups(weights_path, file_order))
    /\ trace' = Append(trace, [op |-> "load_weights", filepath |-> weights_path])
    /\ pc' = IF WarnsAfterLoad(dim_ordering, backend) THEN "warn"
             ELSE IF ConvertsAfterLoad(dim_ordering, backend) THEN "convert"
             ELSE "return"
    /\ UNCHANGED <<env, args, input_shape, img_input, x, layers, weights_path,
                   warned, error, returned>>

\* lines 152-159
Warn ==
    /\ pc = "warn"
    /\ warned' = Append(warned, "You are using the TensorFlow backend, yet you are using the Theano image dimension ordering convention")
    /\ trace' = Append(trace, [op |-> "warn"])
    /\ pc' = "convert"
    /\ UNCHANGED <<env, args, locals, error, returned>>

\* convert_all_kernels_in_model(model): every kernel transposed in place
convert_all_kernels_in_model(m) ==
    [m EXCEPT !.kernels = IF m.kernels = "th" THEN "tf"
                          ELSE IF m.kernels = "tf" THEN "th" ELSE m.kernels]

\* lines 160 and 172
ConvertKernels ==
    /\ pc = "convert"
    /\ model' = convert_all_kernels_in_model(model)
    /\ trace' = Append(trace, [op |-> "convert_all_kernels_in_model"])
    /\ pc' = "return"
    /\ UNCHANGED <<env, args, input_shape, img_input, x, layers, weights_path,
                   warned, error, returned>>

\* line 173
Return ==
    /\ pc = "return"
    /\ returned' = model
    /\ trace' = Append(trace, [op |-> "return"])
    /\ pc' = "done"
    /\ UNCHANGED <<env, args, locals, warned, error>>

Next ==
    \/ Validate
    \/ DetermineInputShape
    \/ MakeInput
    \/ Block1
    \/ Block2
    \/ Block3
    \/ Block4
    \/ Block5
    \/ ClassificationBlock
    \/ CreateModel
    \/ GetFile
    \/ LoadWeights
    \/ Warn
    \/ ConvertKernels
    \/ Return

Spec == Init /\ [][Next]_vars

(***************************************************************************)
(* Properties.                                                             *)
(***************************************************************************)
\* positions in the trace of the calls of one operation
Ops(op) == {i \in 1 .. Len(trace) : trace[i].op = op}

Accepted == weights \in {Imagenet, NoneVal}

IsKerasTensor(t) == t # NoneVal /\ t.keras

\* the weight file's ordering convention does not match the backend
Mismatch ==
    \/ dim_ordering = "th" /\ backend = "tensorflow"
    \/ dim_ordering # "th" /\ backend = "theano"

\* C1 (as stated): every value of `weights` other than 'imagenet' and None
\* makes the call raise the ValueError of line 57 and nothing else happens
\* (no Input, no layer, no Model, no get_file, load_weights or conversion);
\* 'imagenet' and None never raise it.
C1_InvalidWeightsRaiseValueError ==
    pc # "validate" =>
        IF ~Accepted
        THEN /\ pc = "raised"
             /\ error = "ValueError"
             /\ trace = << [op |-> "raise", exc |-> "ValueError"] >>
             /\ img_input = NoneVal /\ layers = << >> /\ model = NoneVal
             /\ weights_path = NoneVal /\ warned = << >>
        ELSE error # "ValueError" /\ pc # "raised"

\* the file the claim's table gives for an ordering and include_top
C2_Table(th, top) ==
    IF th
    THEN IF top
         THEN << TH_WEIGHTS_PATH, "vgg19_weights_th_dim_ordering_th_kernels.h5" >>
         ELSE << TH_WEIGHTS_PATH_NO_TOP, "vgg19_weights_th_dim_ordering_th_kernels_notop.h5" >>
    ELSE IF top
         THEN << TF_WEIGHTS_PATH, "vgg19_weights_tf_dim_ordering_tf_kernels.h5" >>
         ELSE << TF_WEIGHTS_PATH_NO_TOP, "vgg19_weights_tf_dim_ordering_tf_kernels_notop.h5" >>

\* C2: with weights='imagenet' exactly one file is fetched through get_file,
\* and it is the one the table gives for (include_top, image_dim_ordering):
\* its URL, its cache file name, cache_subdir 'models'; the four combinations
\* have four different URLs and four different file names; nothing else
\* (backend, input_tensor, layers_lr) takes part in the choice.
C2_WeightFileByTopAndOrdering ==
    /\ Cardinality(Ops("get_file")) <= 1
    /\ (pc = "done" /\ weights = Imagenet => Cardinality(Ops("get_file")) = 1)
    /\ \A i \in Ops("get_file") :
         /\ weights = Imagenet
         /\ << trace[i].origin, trace[i].fname >>
              = C2_Table(dim_ordering = "th", include_top)
         /\ trace[i].cache_subdir = "models"
    /\ \A o1 \in DimOrderings, o2 \in DimOrderings, t1 \in BOOLEAN, t2 \in BOOLEAN :
         << o1, t1 >> # << o2, t2 >> =>
            /\ WeightsFile(o1, t1).origin # WeightsFile(o2, t2).origin
            /\ WeightsFile(o1, t1).fname # WeightsFile(o2, t2).fname

C2_Witness ==
    /\ pc = "done" /\ weights = Imagenet /\ ~include_top /\ dim_ordering = "tf"
    /\ input_tensor # NoneVal /\ layers_lr # 1
    /\ \E i \in Ops("get_file") : trace[i].origin = TF_WEIGHTS_PATH_NO_TOP

\* C3: convert_all_kernels_in_model is called at most once, only in a call
\* with weights='imagenet' whose ordering mismatches the backend and only
\* after load_weights; a completed call with weights='imagenet' and a
\* mismatch has called it exactly once.
C3_ConvertOnceOnMismatch ==
    /\ Cardinality(Ops("convert_all_kernels_in_model")) <= 1
    /\ \A i \in Ops("convert_all_kernels_in_model") :
         /\ weights = Imagenet
         /\ Mismatch
         /\ \E j \in Ops("load_weights") : j < i
    /\ (pc = "done" /\ weights = Imagenet /\ Mismatch
          => Cardinality(Ops("convert_all_kernels_in_model")) = 1)

C3_Witness ==
    /\ pc = "done" /\ weights = Imagenet
    /\ dim_ordering = "tf" /\ backend = "theano"
    /\ Cardinality(Ops("convert_all_kernels_in_model")) = 1

\* C4 (as stated): a completed call that loaded a mismatching file has warned
\* and converted, in both directions, raised nothing and returned the model.
C4_EveryMismatchWarns ==
    pc = "done" /\ weights = Imagenet /\ Mismatch =>
        /\ Len(warned) = 1
        /\ Cardinality(Ops("convert_all_kernels_in_model")) = 1
        /\ error = "" /\ returned = model /\ returned # NoneVal

\* C4 (amended): every mismatch is followed by the conversion, raises nothing
\* and the model is returned; the warning is emitted for the 'th' ordering on
\* the tensorflow backend and not for the 'tf' ordering on theano; an accepted
\* call never ends in an exception.
C4_MismatchConvertsWarnsOnlyTh ==
    /\ (pc = "done" /\ weights = Imagenet /\ Mismatch =>
          /\ Cardinality(Ops("convert_all_kernels_in_model")) = 1
          /\ error = "" /\ returned = model /\ returned # NoneVal
          /\ (Len(warned) = 1 <=> dim_ordering = "th")
          /\ Len(warned) <= 1)
    /\ (pc = "raised" => ~Accepted)
    /\ (Ops("warn") # {} =>
          pc = "convert" \/ Ops("convert_all_kernels_in_model") # {})

C4_Witness ==
    /\ pc = "done" /\ weights = Imagenet
    /\ dim_ordering = "th" /\ backend = "tensorflow"
    /\ Len(warned) = 1 /\ returned = model /\ returned.kernels = "tf"

\* C5: once load_weights has run, every group stored in the fetched file is
\* in the layer of the same name, whatever the order the file stores them in.
C5_WeightsLoadedByName ==
    Ops("load_weights") # {} =>
        LET groups == WeightFileGroups(weights_path, file_order) IN
          \A i \in 1 .. Len(groups) :
             /\ groups[i].name \in DOMAIN model.weights
             /\ model.weights[groups[i].name] = groups[i].data

C5_Witness ==
    /\ pc = "done" /\ weights = Imagenet /\ include_top
    /\ file_order = "reversed"
    /\ returned.weights["block1_conv1"] = << weights_path.fname, "block1_conv1" >>
    /\ returned.weights["predictions"] = << weights_path.fname, "predictions" >>

\* the input shape the claim gives for include_top and the ordering
C6_Expected ==
    IF include_top
    THEN IF dim_ordering = "th" THEN << 3, 224, 224 >> ELSE << 224, 224, 3 >>
    ELSE IF dim_ordering = "th" THEN << 3, NoneDim, NoneDim >>
                                ELSE << NoneDim, NoneDim, 3 >>

\* C6 (as stated): for every accepted call, whatever input_tensor is, the
\* returned model's input shape is 224x224x3 with include_top and
\* None x None x 3 without, channels first under 'th' and last otherwise.
C6_InputShapeForEveryInputTensor ==
    pc = "done" => returned.input.shape = C6_Expected

\* C6 (amended): that shape is the returned model's input shape when
\* input_tensor is None or is not a Keras tensor; when input_tensor is a Keras
\* tensor the model's input is that tensor, with the shape its caller gave it.
C6_InputShapeUnlessKerasTensor ==
    pc = "done" =>
        IF IsKerasTensor(input_tensor)
        THEN returned.input = input_tensor
             /\ returned.input.shape = input_tensor.shape
        ELSE returned.input.shape = C6_Expected

C6_Witness ==
    /\ pc = "done" /\ ~include_top /\ dim_ordering = "tf"
    /\ input_tensor = RawTensor
    /\ returned.input.shape = << NoneDim, NoneDim, 3 >>

\* the reference table: per stage, the number of convolutions and their
\* filter count
C7_RefStages == << << 2, 64 >>, << 2, 128 >>, << 4, 256 >>, << 4, 512 >>, << 4, 512 >> >>

C7_RefTop == << [k |-> "flatten", n |-> 0], [k |-> "dense", n |-> 4096],
                [k |-> "dense", n |-> 4096], [k |-> "dense", n |-> 1000] >>

\* a stage of the table: its convolutions, then one 2x2 stride-2 max-pooling
C7_Stage(st) ==
    [i \in 1 .. st[1] + 1 |->
        IF i <= st[1] THEN [k |-> "conv", n |-> st[2]]
                      ELSE [k |-> "maxpool_2x2_stride_2", n |-> 0]]

C7_Reference(top) ==
    C7_Stage(C7_RefStages[1]) \o C7_Stage(C7_RefStages[2]) \o C7_Stage(C7_RefStages[3])
      \o C7_Stage(C7_RefStages[4]) \o C7_Stage(C7_RefStages[5])
      \o (IF top THEN C7_RefTop ELSE << >>)

\* what a layer of the model is, in the terms of the table
C7_Summary(l) ==
    IF l.kind = "Convolution2D" THEN [k |-> "conv", n |-> l.nb_filter]
    ELSE IF l.kind = "MaxPooling2D"
         THEN [k |-> IF l.pool_size = << 2, 2 >> /\ l.strides = << 2, 2 >>
                     THEN "maxpool_2x2_stride_2" ELSE "maxpool_other",
               n |-> 0]
    ELSE IF l.kind = "Dense" THEN [k |-> "dense", n |-> l.output_dim]
    ELSE IF l.kind = "Flatten" THEN [k |-> "flatten", n |-> 0]
    ELSE [k |-> "other", n |-> 0]

\* C7: the layers of every model built are those of the reference table, in
\* its order and wired one after the other: sixteen convolutions in stages
\* of 2, 2, 4, 4, 4 with 64, 128, 256, 512, 512 filters (never decreasing),
\* a 2x2 stride-2 max-pooling closing each stage; the output is that of the
\* fifth pooling without include_top, and of the last of flatten, dense 4096,
\* dense 4096, dense 1000 with it.
C7_LayersMatchReference ==
    model # NoneVal =>
        LET ls == model.layers
            convs == {i \in 1 .. Len(ls) : ls[i].kind = "Convolution2D"}
        IN /\ [i \in 1 .. Len(ls) |-> C7_Summary(ls[i])] = C7_Reference(include_top)
           /\ Cardinality(convs) = 16
           /\ \A i \in convs, j \in convs :
                i < j => ls[i].nb_filter <= ls[j].nb_filter
           /\ Cardinality({i \in 1 .. Len(ls) : ls[i].kind = "MaxPooling2D"}) = 5
           /\ \A i \in 2 .. Len(ls) : ls[i].inbound = ls[i - 1].name
           /\ model.output.id = ls[Len(ls)].name
           /\ model.output.id = IF include_top THEN "predictions" ELSE "block5_pool"

C7_Witness ==
    /\ pc = "done" /\ include_top /\ weights = NoneVal
    /\ IsKerasTensor(input_tensor) /\ backend = "tensorflow" /\ dim_ordering = "th"
    /\ Len(returned.layers) = 25
    /\ returned.layers[9].name = "block3_conv3"

\* C8: a Keras tensor given as input_tensor is the entry point itself: no
\* Input is constructed, the first convolution is called on it and it is the
\* model's input.  Otherwise exactly one Input is constructed, from the
\* computed input_shape, wrapping input_tensor when one was given.
C8_KerasTensorIsEntryPoint ==
    /\ (pc \in {"validate", "input_shape", "img_input", "raised"} => Ops("Input") = {})
    /\ (pc \notin {"validate", "input_shape", "img_input", "raised"} =>
          /\ IF IsKerasTensor(input_tensor)
             THEN img_input = input_tensor /\ Ops("Input") = {}
             ELSE /\ Cardinality(Ops("Input")) = 1
                  /\ \A i \in Ops("Input") :
                       /\ trace[i].shape = InputShape(dim_ordering, include_top)
                       /\ trace[i].tensor = input_tensor
                  /\ img_input.id \notin {t.id : t \in InputTensors \ {NoneVal}}
                  /\ img_input.shape = InputShape(dim_ordering, include_top)
          /\ (layers # << >> => layers[1].inbound = img_input.id)
          /\ (model # NoneVal => model.input = img_input))

C8_Witness ==
    /\ pc = "done" /\ include_top
    /\ input_tensor = KerasTensor("caller_input_small", << 3, 100, 100 >>)
    /\ returned.input = input_tensor
    /\ returned.layers[1].inbound = "caller_input_small"

\* C9: every convolution and dense layer created has layers_lr as its weight
\* and as its bias learning-rate multiplier, pooling and flatten layers have
\* no multiplier, and a returned model has 16 such layers without include_top
\* and 19 with it.
C9_LayersLrEverywhere ==
    /\ \A i \in 1 .. Len(layers) :
         IF layers[i].kind \in {"Convolution2D", "Dense"}
         THEN /\ layers[i].W_learning_rate_multiplier = layers_lr
              /\ layers[i].b_learning_rate_multiplier = layers_lr
         ELSE /\ "W_learning_rate_multiplier" \notin DOMAIN layers[i]
              /\ "b_learning_rate_multiplier" \notin DOMAIN layers[i]
    /\ (pc = "done" =>
          /\ returned.layers = layers
          /\ Cardinality({i \in 1 .. Len(layers) :
                            "W_learning_rate_multiplier" \in DOMAIN layers[i]})
               = IF include_top THEN 19 ELSE 16)

C9_Witness ==
    /\ pc = "done" /\ include_top /\ layers_lr = 2
    /\ returned.layers[14].name = "block4_conv3"
    /\ returned.layers[14].W_learning_rate_multiplier = 2
    /\ returned.layers[24].b_learning_rate_multiplier = 2

\* the place of an operation in the one path of a call
C10_Rank(op) ==
    CASE op = "Input" -> 0
      [] op = "layer" -> 1
      [] op = "Model" -> 2
      [] op = "get_file" -> 3
      [] op = "load_weights" -> 4
      [] op = "warn" -> 5
      [] op = "convert_all_kernels_in_model" -> 6
      [] op = "return" -> 7
      [] OTHER -> 8

\* C10: the calls of an accepted call happen in one order, the graph, then
\* Model, get_file, load_weights, the conversion, the return, each of these
\* at most once; load_weights follows a get_file and is given the path that
\* get_file returned; the conversion follows a load_weights; with
\* weights=None there is no get_file, load_weights, conversion or warning;
\* a completed call has built every layer and the Model once and, with
\* weights='imagenet', has called get_file once and load_weights once.
C10_OneSequentialPath ==
    /\ \A i \in 1 .. Len(trace), j \in 1 .. Len(trace) :
         i < j =>
            /\ C10_Rank(trace[i].op) <= C10_Rank(trace[j].op)
            /\ (C10_Rank(trace[j].op) >= 2 => C10_Rank(trace[i].op) < C10_Rank(trace[j].op))
    /\ \A j \in Ops("load_weights") :
         \E i \in Ops("get_file") : i < j /\ trace[j].filepath = trace[i].result
    /\ \A j \in Ops("convert_all_kernels_in_model") :
         \E i \in Ops("load_weights") : i < j
    /\ (weights = NoneVal =>
          /\ Ops("get_file") = {} /\ Ops("load_weights") = {}
          /\ Ops("convert_all_kernels_in_model") = {} /\ Ops("warn") = {}
          /\ warned = << >>)
    /\ (pc = "done" =>
          /\ Cardinality(Ops("Model")) = 1 /\ Cardinality(Ops("return")) = 1
          /\ Cardinality(Ops("layer")) = IF include_top THEN 25 ELSE 21
          /\ returned = model
          /\ (weights = Imagenet =>
                Cardinality(Ops("get_file")) = 1 /\ Cardinality(Ops("load_weights")) = 1))

C10_Witness ==
    /\ pc = "done" /\ weights = Imagenet
    /\ dim_ordering = "th" /\ backend = "tensorflow"
    /\ Ops("warn") # {} /\ Ops("convert_all_kernels_in_model") # {}
    /\ trace[Len(trace)].op = "return"
    /\ \E j \in Ops("load_weights") : trace[j].filepath.datadir_base = "/tmp/.keras"

====
